---- MODULE Spec2Model ----
(***************************************************************************)
(* A model of the golexer package: the character cursor, the token buffer, *)
(* the default token parsers, the putback stack and GetToken/PutBack, in   *)
(* the two drafts the repository holds (the strict one returns EofError    *)
(* with the end-of-stream token and steps over a closing quote, the        *)
(* lenient one does neither), and the C-style number parser.               *)
(* Runes are code points, literals are sequences of code points.           *)
(***************************************************************************)
EXTENDS Integers, Sequences, FiniteSets, TLC

VARIABLES
    strict,         \* TRUE: the draft with EofError and lastPos; FALSE: src/lexer.go
    input,          \* the runes the io.RuneScanner will deliver
    off,            \* how many runes ReadRune has delivered so far
    lineno, pos, lastPos, r, eof, buf, lastToken, putbackTokens,   \* Lexer fields
    tokenParsers,   \* Lexer field: the Parsers list, by name, "nil" for a nil entry
    op,             \* the last call made on the lexer and the path it took
    ret,            \* what the last GetToken returned: [tok, err]
    pbRun,          \* history: tokens pushed by the current run of PutBack calls
    nDrained,       \* history: GetToken calls made since that run
    pending,        \* history: PutBack calls not yet matched by a GetToken call
    snap,           \* history: the lexer as it was before PutBack(last returned token)
    numRes,         \* what cNumberParser returned: [type, err, value]
    chainRun        \* history: the parsers the last GetToken invoked and what
                    \* each returned, and whether the fallback ran

vars == <<strict, input, off, lineno, pos, lastPos, r, eof, buf, lastToken,
          putbackTokens, tokenParsers, op, ret, pbRun, nDrained, pending, snap,
          numRes, chainRun>>

----------------------------------------------------------------------------
(* Bounds *)
MaxLen == 2         \* input length where the caller also puts tokens back
MaxPutback == 2     \* depth of the putback stack
MaxScanLen == 4     \* input length where the caller only calls GetToken
MaxNumLen == 4      \* input length for the number parser
MaxChain == 3       \* entries of a caller-supplied parser list
MaxChainLen == 2    \* input length under caller-supplied parser lists
MaxDigits == 30     \* digits of a long literal for the number parser

(* NUL, newline, space, '"', '#', ''', '1', '@', '_', 'a', e-acute (2 bytes) *)
Alphabet == {0, 10, 32, 34, 35, 39, 49, 64, 95, 97, 233}
(* '.', '0', '1', '5', '7', '8', 'A', 'e', 'x' *)
NumAlphabet == {46, 48, 49, 53, 55, 56, 65, 101, 120}

SeqsUpTo(S, n) == UNION {[1..k -> S] : k \in 0..n}

----------------------------------------------------------------------------
(* Token types and errors *)
TOKEN_NULL == 0
TOKEN_EOF == 1
TOKEN_IDENTIFIER == 2
TOKEN_NUMBER == 3
TOKEN_STRING == 4
TOKEN_UNKNOWN == 5

NilError == "nil"
EofError == "End of file."
InvalidNumberFormatError == "Invalid number format."
MaximumNumberRangeError == "The maximum number detected."

NUMBER_TYPE_INTEGER == 0
NUMBER_TYPE_FLOAT == 1

Token(type, literal, line, linePos) ==
    [Type |-> type, Literal |-> literal, LineNumber |-> line, LinePos |-> linePos]

ZeroToken == Token(TOKEN_NULL, <<>>, 0, 0)

----------------------------------------------------------------------------
(* Rune classes (package unicode, restricted to Latin-1) and UTF-8 width *)
IsSpace(c) == c \in {9, 10, 11, 12, 13, 32, 133, 160}

IsLetter(c) ==
    \/ c \in 65..90 \/ c \in 97..122
    \/ c \in {170, 181, 186}
    \/ c \in 192..214 \/ c \in 216..246 \/ c \in 248..255

IsDigit(c) == c \in 48..57

RuneLen(c) == IF c < 128 THEN 1 ELSE IF c < 2048 THEN 2 ELSE IF c < 65536 THEN 3 ELSE 4

isOctDigit(c) == c >= 48 /\ c <= 55

isDigit(c) == c >= 48 /\ c <= 57

isHexDigit(c) == (c >= 48 /\ c <= 57) \/ (c >= 97 /\ c <= 102) \/ (c >= 65 /\ c <= 70)

----------------------------------------------------------------------------
(* The Lexer as a record, so that the methods are operators on it *)
Self ==
    [off |-> off, lineno |-> lineno, pos |-> pos, lastPos |-> lastPos, r |-> r,
     eof |-> eof, buf |-> buf, lastToken |-> lastToken,
     putbackTokens |-> putbackTokens, tokenParsers |-> tokenParsers]

ZeroLexer ==
    [off |-> 0, lineno |-> 0, pos |-> 0, lastPos |-> 0, r |-> 0, eof |-> FALSE,
     buf |-> <<>>, lastToken |-> ZeroToken, putbackTokens |-> <<>>,
     tokenParsers |-> <<>>]

(* Lexer.NextRune over the source `in`; the rune it returns is the r field *)
NextRuneOn(in, s) ==
    IF ~s.eof
    THEN IF s.off >= Len(in)
         THEN [s EXCEPT !.r = 0, !.eof = TRUE]
         ELSE LET c == in[s.off + 1] IN
              IF c = 10
              THEN [s EXCEPT !.off = @ + 1, !.lineno = @ + 1, !.pos = 0, !.r = c]
              ELSE [s EXCEPT !.off = @ + 1, !.pos = @ + RuneLen(c), !.r = c]
    ELSE s

NextRune(s) == NextRuneOn(input, s)

AppendRune(s) == [s EXCEPT !.buf = Append(@, s.r)]

(* Lexer.token: the position is lastPos in the strict draft, pos in the other *)
token(s, tokenType) ==
    [s EXCEPT !.lastToken =
        Token(tokenType, s.buf, s.lineno, IF strict THEN s.lastPos ELSE s.pos)]

----------------------------------------------------------------------------
(* The default parsers; each returns [s |-> the lexer after it, t |-> type] *)
RECURSIVE SkipLoop(_)
SkipLoop(s) ==
    IF IsSpace(s.r)
    THEN LET n == NextRune(s) IN IF n.r = 0 THEN n ELSE SkipLoop(n)
    ELSE s

DefaultSkipWritespaces_Once(s) ==
    [s |-> IF IsSpace(s.r) THEN NextRune(s) ELSE s, t |-> TOKEN_NULL]

DefaultSkipWritespaces(s) == [s |-> SkipLoop(s), t |-> TOKEN_NULL]

RECURSIVE IdentifierLoop(_)
IdentifierLoop(s) ==
    IF IsLetter(s.r) \/ s.r = 95 \/ IsDigit(s.r)
    THEN IdentifierLoop(NextRune(AppendRune(s)))
    ELSE s

DefaultIdentifierParser_NoDigits(s) ==
    LET RECURSIVE Letters(_)
        Letters(x) == IF IsLetter(x.r) \/ x.r = 95
                      THEN Letters(NextRune(AppendRune(x))) ELSE x
    IN  IF IsLetter(s.r) \/ s.r = 95
        THEN [s |-> Letters(s), t |-> TOKEN_IDENTIFIER]
        ELSE [s |-> s, t |-> TOKEN_NULL]

DefaultIdentifierParser(s) ==
    IF IsLetter(s.r) \/ s.r = 95
    THEN [s |-> IdentifierLoop(s), t |-> TOKEN_IDENTIFIER]
    ELSE [s |-> s, t |-> TOKEN_NULL]

RECURSIVE NumberLoop(_)
NumberLoop(s) ==
    IF IsDigit(s.r) THEN NumberLoop(NextRune(AppendRune(s))) ELSE s

DefaultNumberParser(s) ==
    IF IsDigit(s.r)
    THEN [s |-> NumberLoop(s), t |-> TOKEN_NUMBER]
    ELSE [s |-> s, t |-> TOKEN_NULL]

(* the strict draft steps over the closing quote, src/lexer.go stops on it *)
RECURSIVE QuotedStringLoop(_, _)
QuotedStringLoop(s, quotemark) ==
    LET n == NextRune(s) IN
    IF n.r # 0
    THEN IF n.r = quotemark
         THEN (IF strict THEN NextRune(n) ELSE n)
         ELSE QuotedStringLoop(AppendRune(n), quotemark)
    ELSE n

DefaultQuotedStringParser(s) ==
    IF s.r = 34 \/ s.r = 39
    THEN [s |-> QuotedStringLoop(s, s.r), t |-> TOKEN_STRING]
    ELSE [s |-> s, t |-> TOKEN_NULL]

RECURSIVE CommentLoop(_)
CommentLoop(s) ==
    LET n == NextRune(s) IN
    IF n.r # 0 THEN (IF n.r = 10 THEN n ELSE CommentLoop(n)) ELSE n

DefaultCommentParser(s) ==
    IF s.r = 35
    THEN [s |-> CommentLoop(s), t |-> TOKEN_NULL]
    ELSE [s |-> s, t |-> TOKEN_NULL]

(* NewDefaultTokenParsers: the chain, by name *)
DefaultParsers == <<"Identifier", "Number", "QuotedString", "Comment">>

RunParser(name, s) ==
    CASE name = "Identifier" -> DefaultIdentifierParser(s)
      [] name = "Number" -> DefaultNumberParser(s)
      [] name = "QuotedString" -> DefaultQuotedStringParser(s)
      [] name = "Comment" -> DefaultCommentParser(s)

NilParser == "nil"

(* the loop over tokenParsers.Parsers from entry i on: a nil entry is passed
   over, the first type other than TOKEN_NULL ends the loop, and a parser
   that returned TOKEN_NULL keeps what it consumed; calls lists the entries
   invoked and the type each returned *)
RECURSIVE RunChainFrom_NoBreak(_, _, _, _)
RunChainFrom_NoBreak(parsers, i, s, calls) ==
    IF i > Len(parsers)
    THEN [s |-> s, t |-> TOKEN_NULL, calls |-> calls]
    ELSE IF parsers[i] = NilParser
    THEN RunChainFrom_NoBreak(parsers, i + 1, s, calls)
    ELSE LET res == RunParser(parsers[i], s)
             now == Append(calls, [i |-> i, t |-> res.t])
             rest == RunChainFrom_NoBreak(parsers, i + 1, res.s, now)
         IN  IF rest.t # TOKEN_NULL THEN rest ELSE [rest EXCEPT !.t = res.t]

RECURSIVE RunChainFrom(_, _, _, _)
RunChainFrom(parsers, i, s, calls) ==
    IF i > Len(parsers)
    THEN [s |-> s, t |-> TOKEN_NULL, calls |-> calls]
    ELSE IF parsers[i] = NilParser
    THEN RunChainFrom(parsers, i + 1, s, calls)
    ELSE LET res == RunParser(parsers[i], s)
             now == Append(calls, [i |-> i, t |-> res.t])
         IN  IF res.t # TOKEN_NULL
             THEN [s |-> res.s, t |-> res.t, calls |-> now]
             ELSE RunChainFrom(parsers, i + 1, res.s, now)

RunChain(parsers, s) == RunChainFrom(parsers, 1, s, <<>>)

NoChainRun == [calls |-> <<>>, fallback |-> FALSE]

----------------------------------------------------------------------------
(* GetToken, by its three paths; each returns
   [s |-> lexer after, tok |-> token, err |-> error, path |-> which] *)
DrainPutback_Fifo(s) ==
    LET ptoken == s.putbackTokens[1] IN
    [s |-> [s EXCEPT !.lastToken = ptoken, !.putbackTokens = Tail(@)],
     tok |-> ptoken, err |-> NilError, path |-> "Drain", run |-> NoChainRun]

DrainPutback(s) ==
    LET ptoken == s.putbackTokens[Len(s.putbackTokens)] IN
    [s |-> [s EXCEPT !.lastToken = ptoken,
                     !.putbackTokens = SubSeq(@, 1, Len(@) - 1)],
     tok |-> ptoken, err |-> NilError, path |-> "Drain", run |-> NoChainRun]

EndOfStream_NoError(s) ==
    LET e == token(s, TOKEN_EOF) IN
    [s |-> e, tok |-> e.lastToken, err |-> NilError, path |-> "Scan",
     run |-> NoChainRun]

EndOfStream(s) ==
    LET e == token(s, TOKEN_EOF) IN
    [s |-> e, tok |-> e.lastToken,
     err |-> IF strict THEN EofError ELSE NilError, path |-> "Scan",
     run |-> NoChainRun]

UnknownRune_NoAdvance(s) ==
    LET u == token(AppendRune(s), TOKEN_UNKNOWN) IN
    [s |-> u, tok |-> u.lastToken, err |-> NilError, path |-> "Scan",
     run |-> [calls |-> <<>>, fallback |-> TRUE]]

UnknownRune(s) ==
    LET u == token(NextRune(AppendRune(s)), TOKEN_UNKNOWN) IN
    [s |-> u, tok |-> u.lastToken, err |-> NilError, path |-> "Scan",
     run |-> [calls |-> <<>>, fallback |-> TRUE]]

ScanToken(s) ==
    LET s1 == IF strict THEN [s EXCEPT !.lastPos = s.pos - 1] ELSE s
        s2 == [s1 EXCEPT !.buf = <<>>]
        res == RunChain(s.tokenParsers, s2)
    IN  IF res.t # TOKEN_NULL
        THEN LET m == token(res.s, res.t) IN
             [s |-> m, tok |-> m.lastToken, err |-> NilError, path |-> "Scan",
              run |-> [calls |-> res.calls, fallback |-> FALSE]]
        ELSE [UnknownRune(res.s) EXCEPT !.run.calls = res.calls]

GetToken_NoEndTest(s) ==
    IF Len(s.putbackTokens) > 0
    THEN DrainPutback(s)
    ELSE ScanToken(DefaultSkipWritespaces(s).s)

GetToken(s) ==
    IF Len(s.putbackTokens) > 0
    THEN DrainPutback(s)
    ELSE LET w == DefaultSkipWritespaces(s) IN
         IF (strict /\ w.t = TOKEN_EOF) \/ w.s.eof
         THEN EndOfStream(w.s)
         ELSE ScanToken(w.s)

PutBack_Reset(s, t) == [s EXCEPT !.putbackTokens = Append(@, t), !.buf = <<>>]

PutBack_Twice(s, t) == [s EXCEPT !.putbackTokens = Append(Append(@, t), t)]

PutBack(s, t) == [s EXCEPT !.putbackTokens = Append(@, t)]

(* NewLexer: a nil tokenParsers stands for the default ones, and the first
   rune is read at construction *)
NilTokenParsers == [nil |-> TRUE, Parsers |-> <<>>]

NewTokenParsers(parsers) == [nil |-> FALSE, Parsers |-> parsers]

NewLexer(in, parsers) ==
    NextRuneOn(in, [ZeroLexer EXCEPT !.tokenParsers =
                        IF parsers.nil THEN DefaultParsers ELSE parsers.Parsers])

----------------------------------------------------------------------------
(* strconv.ParseInt(s, base, 64) for base 8, 10 or 16: a sign, then digits
   of the base; "" and a digit outside the base are ErrSyntax, a magnitude
   beyond the signed 64-bit range is ErrRange *)
ErrNone == "none"
ErrSyntax == "syntax"
ErrRange == "range"

DigitVal(c) ==
    IF c \in 48..57 THEN c - 48
    ELSE IF c \in 97..122 THEN c - 97 + 10
    ELSE IF c \in 65..90 THEN c - 65 + 10
    ELSE 36

RECURSIVE StripZeros(_)
StripZeros(ds) == IF ds # <<>> /\ Head(ds) = 0 THEN StripZeros(Tail(ds)) ELSE ds

(* the digits of 2^63 - 1 in the base *)
MaxInt64Digits(base) ==
    IF base = 10 THEN <<9,2,2,3,3,7,2,0,3,6,8,5,4,7,7,5,8,0,7>>
    ELSE IF base = 16 THEN <<7>> \o [i \in 1..15 |-> 15]
    ELSE [i \in 1..21 |-> 7]

RECURSIVE LexGreater(_, _)
LexGreater(a, b) ==
    IF a = <<>> THEN FALSE
    ELSE IF Head(a) # Head(b) THEN Head(a) > Head(b)
    ELSE LexGreater(Tail(a), Tail(b))

DigitsGreater(a, b) ==
    \/ Len(a) > Len(b)
    \/ Len(a) = Len(b) /\ LexGreater(a, b)

(* 2^63 itself: the one magnitude a negative literal may have beyond the maximum *)
IsMinInt64(ds, base) ==
    LET m == MaxInt64Digits(base) IN
    /\ Len(ds) = Len(m)
    /\ IF base = 10
       THEN ds = [m EXCEPT ![Len(m)] = 8]
       ELSE FALSE

RECURSIVE DigitsValue(_, _, _)
DigitsValue(ds, base, acc) ==
    IF ds = <<>> THEN acc ELSE DigitsValue(Tail(ds), base, acc * base + Head(ds))

(* A 64-bit value is kept as a sign and its magnitude in decimal digits,
   most significant first, <<0>> for zero *)
RECURSIVE MulAdd(_, _, _)
MulAdd(le, m, carry) ==
    IF le = <<>>
    THEN IF carry = 0 THEN <<>> ELSE <<carry % 10>> \o MulAdd(<<>>, m, carry \div 10)
    ELSE LET v == Head(le) * m + carry IN <<v % 10>> \o MulAdd(Tail(le), m, v \div 10)

RECURSIVE Accumulate(_, _, _)
Accumulate(ds, base, le) ==
    IF ds = <<>> THEN le ELSE Accumulate(Tail(ds), base, MulAdd(le, base, Head(ds)))

Reverse(q) == [i \in 1..Len(q) |-> q[Len(q) + 1 - i]]

BigValue(ds, base) ==
    LET le == Accumulate(ds, base, <<>>) IN IF le = <<>> THEN <<0>> ELSE Reverse(le)

Int64(neg, mag) == [neg |-> neg, mag |-> mag]

ParseInt(text, base) ==
    LET neg == text # <<>> /\ Head(text) = 45
        signed == text # <<>> /\ Head(text) \in {43, 45}
        body == IF signed THEN Tail(text) ELSE text
        ds == [i \in 1..Len(body) |-> DigitVal(body[i])]
        sig == StripZeros(ds)
    IN  IF body = <<>> \/ \E i \in 1..Len(ds) : ds[i] >= base
        THEN [err |-> ErrSyntax, value |-> Int64(FALSE, <<0>>)]
        ELSE IF DigitsGreater(sig, MaxInt64Digits(base))
                  /\ ~(neg /\ IsMinInt64(sig, base))
        THEN [err |-> ErrRange,
              value |-> Int64(neg, BigValue(MaxInt64Digits(base), base))]
        ELSE [err |-> ErrNone, value |-> Int64(neg, BigValue(sig, base))]

(* strconv.ParseFloat(s, 64) on the texts the parser can build: decimal
   digits with an optional point, at least one digit, an optional exponent
   with at least one digit. The value is kept as its integer part, its
   fraction digits and its decimal exponent. *)
RECURSIVE DigitRun(_, _)
DigitRun(text, i) ==
    IF i <= Len(text) /\ isDigit(text[i]) THEN DigitRun(text, i + 1) ELSE i

MaxFloatExponent == 308

ParseFloat(text) ==
    LET i1 == DigitRun(text, 1)
        hasDot == i1 <= Len(text) /\ text[i1] = 46
        i2 == IF hasDot THEN DigitRun(text, i1 + 1) ELSE i1
        nDigits == (i1 - 1) + (IF hasDot THEN i2 - i1 - 1 ELSE 0)
        hasExp == i2 <= Len(text) /\ text[i2] \in {69, 101}
        i3 == IF hasExp /\ i2 + 1 <= Len(text) /\ text[i2 + 1] \in {43, 45}
              THEN i2 + 2 ELSE i2 + 1
        i4 == IF hasExp THEN DigitRun(text, i3) ELSE i2
        expNeg == hasExp /\ i2 + 1 <= Len(text) /\ text[i2 + 1] = 45
        expDigits == IF hasExp THEN [k \in 1..(i4 - i3) |-> text[i3 + k - 1] - 48] ELSE <<>>
        intDigits == [k \in 1..(i1 - 1) |-> text[k] - 48]
        fracDigits == IF hasDot THEN [k \in 1..(i2 - i1 - 1) |-> text[i1 + k] - 48] ELSE <<>>
    IN  IF nDigits = 0 \/ (hasExp /\ i4 = i3) \/ i4 # Len(text) + 1
        THEN [err |-> ErrSyntax, value |-> <<>>]
        ELSE IF ~expNeg /\ Len(StripZeros(expDigits)) > 3
        THEN [err |-> ErrRange, value |-> <<>>]
        ELSE LET e == DigitsValue(StripZeros(expDigits), 10, 0) IN
             IF ~expNeg /\ e > MaxFloatExponent
             THEN [err |-> ErrRange, value |-> <<>>]
             ELSE [err |-> ErrNone,
                   value |-> <<DigitsValue(StripZeros(intDigits), 10, 0), fracDigits,
                               IF expNeg THEN 0 - e ELSE e>>]

NoValue == [Type |-> "none"]

(* builder.TokenLiteral(): the text accumulated in the token buffer *)
TokenLiteral(s) == s.buf

(* builder.SetValue(v): the value the token will carry *)
SetValue(v) == v

----------------------------------------------------------------------------
(* cNumberParser; returns [s, t, err, value] *)
RECURSIVE HexLoop(_)
HexLoop(s) == IF isHexDigit(s.r) THEN HexLoop(NextRune(AppendRune(s))) ELSE s

RECURSIVE OctLoop(_)
OctLoop(s) == IF isOctDigit(s.r) THEN OctLoop(NextRune(AppendRune(s))) ELSE s

RECURSIVE DecLoop(_)
DecLoop(s) == IF isDigit(s.r) THEN DecLoop(NextRune(AppendRune(s))) ELSE s

NumberFailure(s, err) == [s |-> s, t |-> TOKEN_NULL, err |-> err, value |-> NoValue]

(* lines 71-88: the literal is an integer *)
IntegerLiteral_Clamp(s, base) ==
    LET p == ParseInt(TokenLiteral(s), base) IN
    IF p.err = ErrSyntax THEN NumberFailure(s, InvalidNumberFormatError)
    ELSE [s |-> s, t |-> TOKEN_NUMBER, err |-> NilError,
          value |-> SetValue([Type |-> NUMBER_TYPE_INTEGER, Integer |-> p.value,
                              Float |-> <<>>])]

IntegerLiteral(s, base) ==
    LET p == ParseInt(TokenLiteral(s), base) IN
    IF p.err = ErrSyntax THEN NumberFailure(s, InvalidNumberFormatError)
    ELSE IF p.err = ErrRange THEN NumberFailure(s, MaximumNumberRangeError)
    ELSE [s |-> s, t |-> TOKEN_NUMBER, err |-> NilError,
          value |-> SetValue([Type |-> NUMBER_TYPE_INTEGER, Integer |-> p.value,
                              Float |-> <<>>])]

(* lines 89-131: the literal is a float *)
FloatLiteral(s) ==
    LET s1 == NextRune(AppendRune(s))
        s2 == DecLoop(s1)
        hasExp == s2.r \in {101, 69}
        s3 == IF hasExp THEN NextRune(AppendRune(s2)) ELSE s2
        s4 == IF hasExp /\ s3.r \in {43, 45} THEN NextRune(AppendRune(s3)) ELSE s3
        s5 == IF hasExp THEN DecLoop(s4) ELSE s4
    IN  IF hasExp /\ ~isDigit(s4.r)
        THEN NumberFailure(s4, InvalidNumberFormatError)
        ELSE LET p == ParseFloat(TokenLiteral(s5)) IN
             IF p.err = ErrSyntax THEN NumberFailure(s5, InvalidNumberFormatError)
             ELSE IF p.err = ErrRange THEN NumberFailure(s5, MaximumNumberRangeError)
             ELSE [s |-> s5, t |-> TOKEN_NUMBER, err |-> NilError,
                   value |-> SetValue([Type |-> NUMBER_TYPE_FLOAT, Integer |-> 0,
                                       Float |-> p.value])]

NumberBody(s, base) ==
    IF s.r # 46 THEN IntegerLiteral(s, base) ELSE FloatLiteral(s)

cNumberParser_HexNoError(s) ==
    IF ~isDigit(s.r)
    THEN [s |-> s, t |-> TOKEN_NULL, err |-> NilError, value |-> NoValue]
    ELSE IF s.r = 48
    THEN LET s1 == NextRune(s) IN
         IF s1.r = 120 \/ s1.r = 88
         THEN LET s2 == NextRune(s1) IN
              IF isHexDigit(s2.r)
              THEN NumberBody(HexLoop(s2), 16)
              ELSE NumberFailure(s2, NilError)
         ELSE NumberBody(OctLoop(s1), 8)
    ELSE NumberBody(DecLoop(s), 10)

cNumberParser(s) ==
    IF ~isDigit(s.r)
    THEN [s |-> s, t |-> TOKEN_NULL, err |-> NilError, value |-> NoValue]
    ELSE IF s.r = 48
    THEN LET s1 == NextRune(s) IN
         IF s1.r = 120 \/ s1.r = 88
         THEN LET s2 == NextRune(s1) IN
              IF isHexDigit(s2.r)
              THEN NumberBody(HexLoop(s2), 16)
              ELSE NumberFailure(s2, InvalidNumberFormatError)
         ELSE NumberBody(OctLoop(s1), 8)
    ELSE NumberBody(DecLoop(s), 10)

----------------------------------------------------------------------------
(* The state machine: a caller holding one Lexer *)
NoSnap == [stage |-> 0]
NoNum == [type |-> TOKEN_NULL, err |-> NilError, value |-> NoValue]
NoReturn == [tok |-> ZeroToken, err |-> NilError]

(* a token the lexer never produced *)
ForeignToken == Token(TOKEN_NUMBER, <<55>>, 7, 7)

Install(s) ==
    /\ off' = s.off
    /\ lineno' = s.lineno
    /\ pos' = s.pos
    /\ lastPos' = s.lastPos
    /\ r' = s.r
    /\ eof' = s.eof
    /\ buf' = s.buf
    /\ lastToken' = s.lastToken
    /\ putbackTokens' = s.putbackTokens
    /\ tokenParsers' = s.tokenParsers

ConstructedWith(in, parsers) ==
    LET s == NewLexer(in, parsers) IN
    /\ input = in
    /\ off = s.off
    /\ lineno = s.lineno
    /\ pos = s.pos
    /\ lastPos = s.lastPos
    /\ r = s.r
    /\ eof = s.eof
    /\ buf = s.buf
    /\ lastToken = s.lastToken
    /\ putbackTokens = s.putbackTokens
    /\ tokenParsers = s.tokenParsers
    /\ op = "New"
    /\ ret = NoReturn
    /\ pbRun = <<>>
    /\ nDrained = 0
    /\ pending = 0
    /\ snap = NoSnap
    /\ numRes = NoNum
    /\ chainRun = NoChainRun

Constructed(in) == ConstructedWith(in, NilTokenParsers)

Init ==
    /\ strict \in BOOLEAN
    /\ \E in \in SeqsUpTo(Alphabet, MaxLen) : Constructed(in)

(* a call of GetToken, whichever path it takes *)
GetTokenCall ==
    LET g == GetToken(Self) IN
    /\ Install(g.s)
    /\ op' = g.path
    /\ ret' = [tok |-> g.tok, err |-> g.err]
    /\ pending' = IF pending > 0 THEN pending - 1 ELSE 0
    /\ IF pbRun # <<>> /\ nDrained < Len(pbRun)
       THEN pbRun' = pbRun /\ nDrained' = nDrained + 1
       ELSE pbRun' = <<>> /\ nDrained' = 0
    /\ snap' = IF snap.stage = 1 THEN [snap EXCEPT !.stage = 2] ELSE NoSnap
    /\ chainRun' = g.run
    /\ UNCHANGED <<strict, input, numRes>>

(* a call of PutBack(t) *)
PutBackCall(t) ==
    /\ Len(putbackTokens) < MaxPutback
    /\ Install(PutBack(Self, t))
    /\ op' = "PutBack"
    /\ pending' = pending + 1
    /\ IF pending = 0
       THEN pbRun' = <<t>> /\ nDrained' = 0
       ELSE IF pbRun # <<>> /\ nDrained = 0
       THEN pbRun' = Append(pbRun, t) /\ nDrained' = 0
       ELSE pbRun' = <<>> /\ nDrained' = 0
    /\ snap' = IF op \in {"Scan", "Drain"} /\ t = ret.tok
               THEN [stage |-> 1, lexer |-> Self, tok |-> t]
               ELSE NoSnap
    /\ UNCHANGED <<strict, input, ret, numRes, chainRun>>

Next ==
    \/ GetTokenCall
    \/ \E t \in {ret.tok, ForeignToken} : PutBackCall(t)

Spec == Init /\ [][Next]_vars

(* A caller that only calls GetToken, as the test does, on longer inputs *)
InitScan ==
    /\ strict \in BOOLEAN
    /\ \E in \in SeqsUpTo(Alphabet, MaxScanLen) : Constructed(in)

SpecScan == InitScan /\ [][GetTokenCall]_vars

(* The number parser applied once to a freshly constructed lexer *)
InitNum ==
    /\ strict = TRUE
    /\ \E in \in SeqsUpTo(NumAlphabet, MaxNumLen) : Constructed(in)

CNumberParserCall ==
    /\ op = "New"
    /\ LET n == cNumberParser(Self) IN
       /\ Install(n.s)
       /\ numRes' = [type |-> n.t, err |-> n.err, value |-> n.value]
    /\ op' = "cNumberParser"
    /\ UNCHANGED <<strict, input, ret, pbRun, nDrained, pending, snap, chainRun>>

SpecNum == InitNum /\ [][CNumberParserCall]_vars

(* The number parser on long literals: a prefix and one digit repeated, and
   the literals next to 2^63 in each base *)
Rep(d, n) == [i \in 1..n |-> d]

(* '1', '7', '9', 'F' *)
RangeDigits == {49, 55, 57, 70}

BoundaryLiterals ==
    LET max == MaxInt64Digits(10)
        dec(ds) == [i \in 1..Len(ds) |-> ds[i] + 48]
    IN  { dec(max), dec([max EXCEPT ![Len(max)] = 8]),
          <<48, 120, 55>> \o Rep(70, 15), <<48, 120, 56>> \o Rep(48, 15),
          <<48, 49>> \o Rep(48, 21) }

RangeInputs ==
    {p \o Rep(d, n) : p \in {<<>>, <<48>>, <<48, 120>>},
                       d \in RangeDigits, n \in 0..MaxDigits}
        \cup BoundaryLiterals

InitRange ==
    /\ strict = TRUE
    /\ \E in \in RangeInputs : Constructed(in)

SpecRange == InitRange /\ [][CNumberParserCall]_vars

(* A caller that supplies its own parser list, built of the default parsers
   and nil entries in any order, and then only calls GetToken *)
ParserNames == {"Identifier", "Number", "QuotedString", "Comment", NilParser}

(* space, quote, '#', '1', 'a' *)
ChainAlphabet == {32, 34, 35, 49, 97}

InitChain ==
    /\ strict \in BOOLEAN
    /\ \E in \in SeqsUpTo(ChainAlphabet, MaxChainLen) :
       \E parsers \in SeqsUpTo(ParserNames, MaxChain) :
           ConstructedWith(in, NewTokenParsers(parsers))

SpecChain == InitChain /\ [][GetTokenCall]_vars

----------------------------------------------------------------------------
(* Properties *)

(* the tokens and errors the next n GetToken calls on lexer s return *)
RECURSIVE Tokens(_, _)
Tokens(s, n) ==
    IF n = 0 THEN <<>>
    ELSE LET g == GetToken(s) IN
         <<[tok |-> g.tok, err |-> g.err]>> \o Tokens(g.s, n - 1)

Lookahead == Len(input) + Len(putbackTokens) + 2

(* C1: after PutBack calls pushing t1..tk onto an empty stack, the j-th of
   the next k GetToken calls returns t(k-j+1) without scanning, and after
   the k-th the stack is empty again: each pushed token is delivered once,
   last in first out. *)
PutbackLifo ==
    (pbRun # <<>> /\ nDrained >= 1) =>
        /\ op = "Drain"
        /\ ret.tok = pbRun[Len(pbRun) - nDrained + 1]
        /\ Len(putbackTokens) = Len(pbRun) - nDrained

PutbackLifoWitness ==
    /\ Len(pbRun) = 2
    /\ nDrained = 2
    /\ pbRun[1] # pbRun[2]
    /\ ret.tok = pbRun[1]
    /\ putbackTokens = <<>>

(* C2: PutBack, and GetToken called with a non-empty putback stack, leave
   the current rune, the end-of-input flag, line, column, source position
   and the token buffer as they were. *)
PutbackFrame ==
    [][(op' = "PutBack" \/ (Len(putbackTokens) > 0 /\ op' \in {"Drain", "Scan"}))
         => UNCHANGED <<r, eof, lineno, pos, lastPos, off, buf>>]_vars

PutbackFrameWitness ==
    /\ op = "Drain"
    /\ buf # <<>>
    /\ ~eof
    /\ ret.tok = ForeignToken

(* C3: PutBack of the token GetToken just returned, then GetToken: the
   token comes back field for field, and the tokens of all later calls are
   those the lexer would have returned without the pair. *)
RoundTrip ==
    snap.stage = 2 =>
        /\ ret.tok = snap.tok
        /\ Tokens(Self, Lookahead) = Tokens(snap.lexer, Lookahead)

RoundTripWitness ==
    /\ snap.stage = 2
    /\ snap.tok.Type = TOKEN_IDENTIFIER
    /\ ~eof
    /\ putbackTokens = <<>>

(* C4: on an input of whitespace only, every scanning GetToken returns the
   end-of-stream token, so the first token a caller receives is the only
   one and it is the end-of-stream token. *)
AllWhitespace == \A i \in 1..Len(input) : IsSpace(input[i])

WhitespaceOnly ==
    (AllWhitespace /\ op = "Scan") => ret.tok.Type = TOKEN_EOF

WhitespaceOnlyWitness ==
    /\ AllWhitespace
    /\ Len(input) >= 2
    /\ \E i \in 1..Len(input) : input[i] = 10
    /\ op = "Scan"
    /\ ret.tok.Type = TOKEN_EOF

(* Reading the input as the claims do: positions in the source *)
RECURSIVE FirstNonSpace(_)
FirstNonSpace(i) ==
    IF i <= Len(input) /\ IsSpace(input[i]) THEN FirstNonSpace(i + 1) ELSE i

AsciiIdentStart(c) == c \in 65..90 \/ c \in 97..122 \/ c = 95

AsciiIdentPart(c) == AsciiIdentStart(c) \/ c \in 48..57

(* the last position of the run of characters in class P(_) that starts at i *)
RECURSIVE RunEnd(_, _)
RunEnd(P(_), i) ==
    IF i + 1 <= Len(input) /\ P(input[i + 1]) THEN RunEnd(P, i + 1) ELSE i

(* the step leaves the cursor on the character after position k of the source *)
CursorAfter(k) ==
    IF k >= Len(input)
    THEN eof' /\ r' = 0
    ELSE ~eof' /\ off' = k + 1 /\ r' = input[k + 1]

(* a scanning GetToken is about to start: nothing put back, input left *)
ScanEntry == putbackTokens = <<>> /\ ~eof /\ off >= 1

(* C5: when the next token text matches [A-Za-z_][A-Za-z0-9_]* and is
   followed by end of input or by a character that is no letter, digit or
   underscore, GetToken returns IDENTIFIER with exactly that text and the
   cursor stands on the first character after it. *)
IdentifierExact ==
    [][LET j == FirstNonSpace(off)
           k == RunEnd(AsciiIdentPart, j)
       IN  (/\ ScanEntry
            /\ op' \in {"Scan", "Drain"}
            /\ j <= Len(input)
            /\ AsciiIdentStart(input[j])
            /\ (k < Len(input) =>
                  ~(IsLetter(input[k + 1]) \/ IsDigit(input[k + 1]) \/ input[k + 1] = 95)))
           => /\ ret'.tok.Type = TOKEN_IDENTIFIER
              /\ ret'.tok.Literal = SubSeq(input, j, k)
              /\ ret'.err = NilError
              /\ CursorAfter(k)
      ]_vars

IdentifierExactWitness ==
    /\ op = "Scan"
    /\ ret.tok.Type = TOKEN_IDENTIFIER
    /\ ret.tok.Literal = <<95, 49>>
    /\ ~eof
    /\ r = 64

(* C6: when every parser of the chain returns no match at the current
   character, GetToken puts exactly that character in the buffer, advances
   once and returns UNKNOWN with that character as Literal. *)
UnknownFallback ==
    [][LET w == SkipLoop(Self)
           j == w.off
       IN  (/\ ScanEntry
            /\ op' \in {"Scan", "Drain"}
            /\ ~w.eof
            /\ RunChain(DefaultParsers, [w EXCEPT !.buf = <<>>]).t = TOKEN_NULL)
           => /\ ret'.tok.Type = TOKEN_UNKNOWN
              /\ ret'.tok.Literal = <<input[j]>>
              /\ buf' = <<input[j]>>
              /\ CursorAfter(j)
      ]_vars

(* C7: a scanning GetToken on a cursor that is not exhausted moves the
   cursor forward: the number of source characters behind the cursor, plus
   one once the end of input has been seen, grows with every such call and
   never exceeds the input's length plus one, so a loop on GetToken while
   IsEnd() is false makes at most that many calls. *)
Progress == off + (IF eof THEN 1 ELSE 0)

ForwardProgress ==
    [][(ScanEntry /\ op' \in {"Scan", "Drain"})
         => (Progress' > Progress /\ Progress' <= Len(input) + 1)]_vars

ForwardProgressWitness ==
    /\ op = "Scan"
    /\ eof
    /\ Len(input) >= 3
    /\ \E i \in 1..Len(input) : input[i] = 64
    /\ \E i \in 1..Len(input) : input[i] = 0

(* C8 as claimed: in the strict draft every GetToken returns EofError
   exactly when the token it returns has type EOF, after any calls. *)
EofErrorIffEofToken ==
    (strict /\ op \in {"Scan", "Drain"}) =>
        (ret.err = EofError <=> ret.tok.Type = TOKEN_EOF)

(* C8 amended: in the strict draft with the default parsers a GetToken
   that scans returns EofError exactly when its token has type EOF; a
   GetToken that returns a put-back token returns a nil error whatever the
   token's type. *)
EofErrorWhenScanning ==
    strict =>
        /\ op = "Scan" => (ret.err = EofError <=> ret.tok.Type = TOKEN_EOF)
        /\ op = "Drain" => ret.err = NilError

EofErrorWhenScanningWitness ==
    /\ strict
    /\ op = "Drain"
    /\ ret.tok.Type = TOKEN_EOF
    /\ ret.err = NilError
    /\ eof

(* C9: at a quote mark q, GetToken returns STRING with the characters
   strictly between that q and the next q as Literal, and the cursor
   stands on the character after the closing q. *)
RECURSIVE NextQuote(_, _)
NextQuote(q, i) ==
    IF i <= Len(input) /\ input[i] # q THEN NextQuote(q, i + 1) ELSE i

QuotedStringExact ==
    [][LET j == FirstNonSpace(off)
           m == NextQuote(input[j], j + 1)
       IN  (/\ ScanEntry
            /\ op' \in {"Scan", "Drain"}
            /\ j <= Len(input)
            /\ input[j] \in {34, 39}
            /\ m <= Len(input))
           => /\ ret'.tok.Type = TOKEN_STRING
              /\ ret'.tok.Literal = SubSeq(input, j + 1, m - 1)
              /\ CursorAfter(m)
      ]_vars

(* C10: an integer literal (not followed by '.') gives NUMBER with an
   INTEGER value equal to the literal's value: base 16 after 0x or 0X,
   base 8 for a 0 followed by octal digits, base 10 otherwise. *)
LiteralValue(i, k, base) ==
    DigitsValue([n \in 1..(k - i + 1) |-> DigitVal(input[i + n - 1])], base, 0)

IsHexLiteral ==
    Len(input) >= 3 /\ input[1] = 48 /\ input[2] \in {120, 88} /\ isHexDigit(input[3])

IsOctLiteral == Len(input) >= 2 /\ input[1] = 48 /\ isOctDigit(input[2])

IntegerLiteralEnd ==
    IF IsHexLiteral THEN RunEnd(isHexDigit, 3)
    ELSE IF IsOctLiteral THEN RunEnd(isOctDigit, 2)
    ELSE RunEnd(isDigit, 1)

IntegerLiteralValue ==
    IF IsHexLiteral THEN LiteralValue(3, IntegerLiteralEnd, 16)
    ELSE IF IsOctLiteral THEN LiteralValue(2, IntegerLiteralEnd, 8)
    ELSE LiteralValue(1, IntegerLiteralEnd, 10)

IsIntegerLiteral ==
    /\ Len(input) >= 1
    /\ isDigit(input[1])
    /\ ~(Len(input) >= 2 /\ input[1] = 48 /\ input[2] \in {120, 88} /\ ~IsHexLiteral)
    /\ (IntegerLiteralEnd < Len(input) => input[IntegerLiteralEnd + 1] # 46)

IntegerLiteralParsed ==
    (op = "cNumberParser" /\ IsIntegerLiteral) =>
        /\ numRes.type = TOKEN_NUMBER
        /\ numRes.err = NilError
        /\ numRes.value.Type = NUMBER_TYPE_INTEGER
        /\ numRes.value.Integer = Int64(FALSE, BigValue(<<IntegerLiteralValue>>, 10))

(* C11: a literal that begins with 0x or 0X and has no hexadecimal digit
   after the prefix gives the invalid-format error and no number token. *)
IsBareHexPrefix ==
    Len(input) >= 2 /\ input[1] = 48 /\ input[2] \in {120, 88} /\ ~IsHexLiteral

BareHexPrefixRejected ==
    (op = "cNumberParser" /\ IsBareHexPrefix) =>
        /\ numRes.err = InvalidNumberFormatError
        /\ numRes.type = TOKEN_NULL
        /\ numRes.value = NoValue

BareHexPrefixRejectedWitness ==
    /\ op = "cNumberParser"
    /\ input = <<48, 120, 120>>
    /\ numRes.err = InvalidNumberFormatError
    /\ numRes.type = TOKEN_NULL

(* C12: a well-formed integer literal whose value exceeds the signed 64-bit
   range gives the range-overflow error, which is not the invalid-format
   error, and no number token: no clamped or truncated value is returned. *)
IsPlainIntegerLiteral ==
    IsIntegerLiteral /\ (input[1] = 48 => (IsHexLiteral \/ IsOctLiteral))

LiteralBase == IF IsHexLiteral THEN 16 ELSE IF IsOctLiteral THEN 8 ELSE 10

LiteralBody ==
    LET i == IF IsHexLiteral THEN 3 ELSE IF IsOctLiteral THEN 2 ELSE 1 IN
    [n \in 1..(IntegerLiteralEnd - i + 1) |-> DigitVal(input[i + n - 1])]

ExceedsInt64 ==
    DigitsGreater(BigValue(LiteralBody, LiteralBase), MaxInt64Digits(10))

RangeOverflowReported ==
    (op = "cNumberParser" /\ IsPlainIntegerLiteral /\ ExceedsInt64) =>
        /\ numRes.err = MaximumNumberRangeError
        /\ numRes.err # InvalidNumberFormatError
        /\ numRes.type = TOKEN_NULL
        /\ numRes.value = NoValue

RangeOverflowReportedWitness ==
    /\ op = "cNumberParser"
    /\ input = Rep(57, 30)
    /\ numRes.err = MaximumNumberRangeError
    /\ numRes.type = TOKEN_NULL

(* C13: a lone 0 (a 0 not followed by x, X, an octal digit or '.') is a
   valid literal: NUMBER with the INTEGER value zero and no error. *)
IsLoneZero ==
    /\ Len(input) >= 1
    /\ input[1] = 48
    /\ (Len(input) >= 2 => ~(input[2] \in {120, 88, 46} \/ isOctDigit(input[2])))

LoneZeroParsed ==
    (op = "cNumberParser" /\ IsLoneZero) =>
        /\ numRes.type = TOKEN_NUMBER
        /\ numRes.err = NilError
        /\ numRes.value.Type = NUMBER_TYPE_INTEGER
        /\ numRes.value.Integer = Int64(FALSE, <<0>>)

(* the position of the newline that ends the comment starting at i, or the
   position after the last character when no newline follows *)
RECURSIVE CommentEnd(_)
CommentEnd(i) ==
    IF i <= Len(input) /\ input[i] # 10 THEN CommentEnd(i + 1) ELSE i

(* C14: a '#' comment is swallowed up to the newline or the end of input
   without a token of its own: a GetToken that meets a comment returns what
   it would return with the comment removed, so the end-of-stream token when
   only whitespace follows the comment, and never a token made of the
   newline that ends the comment. *)
CommentSwallowed ==
    [][LET j == FirstNonSpace(off)
           e == CommentEnd(j)
       IN  (/\ ScanEntry
            /\ op' \in {"Scan", "Drain"}
            /\ j <= Len(input)
            /\ input[j] = 35)
           => IF \A i \in e..Len(input) : IsSpace(input[i])
              THEN ret'.tok.Type = TOKEN_EOF
              ELSE ret'.tok.Literal # <<10>>
      ]_vars

(* line and column the cursor has on position j of the source, counted from
   the cursor's place now: a newline starts a line at column 0 and every
   other character moves the column by its UTF-8 width *)
RECURSIVE LineAt(_, _, _)
LineAt(i, j, line) ==
    IF i >= j THEN line
    ELSE LineAt(i + 1, j, IF input[i + 1] = 10 THEN line + 1 ELSE line)

RECURSIVE ColumnAt(_, _, _)
ColumnAt(i, j, col) ==
    IF i >= j THEN col
    ELSE ColumnAt(i + 1, j, IF input[i + 1] = 10 THEN 0 ELSE col + RuneLen(input[i + 1]))

(* C15: a scanned token carries the line and column the cursor had on the
   token's first character, before the parser chain ran (the column as the
   draft counts it: the strict draft one less than the other), whatever the
   parser consumed. *)
TokenStartPosition ==
    [][LET j == FirstNonSpace(off)
           col == ColumnAt(off, j, pos)
       IN  (/\ ScanEntry
            /\ op' \in {"Scan", "Drain"}
            /\ j <= Len(input))
           => /\ ret'.tok.LineNumber = LineAt(off, j, lineno)
              /\ ret'.tok.LinePos = IF strict THEN col - 1 ELSE col
      ]_vars

(* C16: whenever GetToken can be entered with an empty putback stack the
   token buffer is empty, and a GetToken that scanned a quoted string has
   left the cursor behind the string's closing quote, not on it. *)
GetTokenEntry ==
    /\ [](putbackTokens = <<>> => buf = <<>>)
    /\ [][LET j == FirstNonSpace(off)
              m == NextQuote(input[j], j + 1)
          IN  (/\ ScanEntry
               /\ op' \in {"Scan", "Drain"}
               /\ j <= Len(input)
               /\ input[j] \in {34, 39}
               /\ m <= Len(input))
              => (eof' \/ off' > m)
         ]_vars

(* C17: a token GetToken builds by scanning has a Literal made of the
   characters appended during that call only; the end-of-stream token, for
   which nothing is appended, has an empty Literal. *)
EofLiteralEmpty ==
    (op = "Scan" /\ ret.tok.Type = TOKEN_EOF) => ret.tok.Literal = <<>>

(* C18: a scanning GetToken invokes the entries of the caller's parser list
   in list order, passing over nil entries; every parser invoked before the
   last one returned no match, the token has the type the last one returned
   when that is a match, and the unknown-character fallback runs exactly
   when every entry that is not nil was invoked and returned no match. *)
NonNilEntries(n) == {i \in 1..n : tokenParsers[i] # NilParser}

ChainOrder ==
    LET calls == chainRun.calls
        n == Len(calls)
        matched == n > 0 /\ calls[n].t # TOKEN_NULL
        last == IF n = 0 THEN 0 ELSE calls[n].i
    IN  (op = "Scan" /\ ret.tok.Type # TOKEN_EOF) =>
            /\ \A k \in 1..n : calls[k].i \in 1..Len(tokenParsers)
            /\ \A k \in 1..(n - 1) : calls[k].i < calls[k + 1].i
            /\ {calls[k].i : k \in 1..n} = NonNilEntries(last)
            /\ \A k \in 1..(n - 1) : calls[k].t = TOKEN_NULL
            /\ matched => (ret.tok.Type = calls[n].t /\ ~chainRun.fallback)
            /\ ~matched => /\ chainRun.fallback
                           /\ ret.tok.Type = TOKEN_UNKNOWN
                           /\ {calls[k].i : k \in 1..n} = NonNilEntries(Len(tokenParsers))

ChainOrderWitness ==
    /\ op = "Scan"
    /\ tokenParsers = <<"Comment", NilParser, "Number">>
    /\ chainRun.calls = <<[i |-> 1, t |-> TOKEN_NULL], [i |-> 3, t |-> TOKEN_NUMBER]>>
    /\ ret.tok.Type = TOKEN_NUMBER

(* C19: once the end of input was seen the flag stays set, NextRune changes
   nothing and returns rune 0, no call moves the source position, the line
   or the column, and a GetToken called with an empty putback stack returns
   a token of type EOF. *)
ExhaustionAbsorbing ==
    [][eof =>
         /\ eof'
         /\ NextRune(Self) = Self
         /\ NextRune(Self).r = 0
         /\ UNCHANGED <<off, lineno, pos, r>>
         /\ (putbackTokens = <<>> /\ op' \in {"Scan", "Drain"})
                => ret'.tok.Type = TOKEN_EOF
      ]_vars

ExhaustionAbsorbingWitness ==
    /\ eof
    /\ op = "Scan"
    /\ ret.tok.Type = TOKEN_EOF
    /\ Len(input) = 2
    /\ off = 2
    /\ lineno = 1
    /\ putbackTokens = <<>>

(* C20: at a quote mark that does not occur again before the end of input,
   GetToken returns STRING with no error and every character after the
   opening quote up to the end of input as Literal, and the GetToken after
   it returns the end-of-stream token. *)
UnterminatedString ==
    [][LET j == FirstNonSpace(off)
           m == NextQuote(input[j], j + 1)
       IN  (/\ ScanEntry
            /\ op' \in {"Scan", "Drain"}
            /\ j <= Len(input)
            /\ input[j] \in {34, 39}
            /\ m > Len(input))
           => /\ ret'.tok.Type = TOKEN_STRING
              /\ ret'.err = NilError
              /\ ret'.tok.Literal = SubSeq(input, j + 1, Len(input))
              /\ GetToken(Self)'.tok.Type = TOKEN_EOF
      ]_vars

====
